---- MODULE Spec2Model ----
(***************************************************************************)
(* The session-identity cache (services/userCache) and the account         *)
(* settings controller (AccountSettingsPage) that synchronises a profile   *)
(* form with it.                                                           *)
(*                                                                         *)
(* Two specifications share the variables:                                 *)
(*   SpecCache  the cache alone, driven by arbitrary listeners that may    *)
(*              call back into the cache from inside a notification; the   *)
(*              JavaScript call stack is explicit (variable stack).        *)
(*   Spec       a controller on top of the cache, next to other consumers  *)
(*              that set, clear and observe the cache; no listener of      *)
(*              this specification calls the cache from its callback, so   *)
(*              every handler runs to completion as one action.            *)
(***************************************************************************)
EXTENDS Integers, Sequences, FiniteSets, TLC

(* ------------------------------- bounds -------------------------------- *)
\* cache calls made from inside callbacks while one top-level call runs
MaxNested == 1
\* unsubscribe closures of one listener that were returned and not yet called
MaxSubs == 1
\* field edits typed into the forms in one run
MaxEdits == 2

(* ------------------------------- values -------------------------------- *)
\* User | null: a user is named by its key in UserData, null is Null
Null == "null"
Users == {"u1", "u2"}

\* controller instances (AccountSettingsPage mounts); the subscription
\* callback of instance c is listener c
Controllers == {"c1", "c2"}
\* the instance that specification Spec mounts
Pages == {"c1"}

\* listeners of the cache-only specification (arbitrary consumers)
Generic == {"g1", "g2"}
\* the listener of another consumer in specification Spec
Observers == {"g1"}
\* "no listener" in frames and events that concern none
NoListener == "none"

(* ------------------------------- strings ------------------------------- *)
\* a string is the sequence of its characters; an optional value (avatar,
\* a payload entry) is <<>> when null/undefined and <<value>> otherwise
\* the letters of this model: "E" is the one capital
Lower(ch) == IF ch = "E" THEN "e" ELSE ch

\* String.prototype.toLowerCase
toLowerCase(str) == [i \in DOMAIN str |-> Lower(str[i])]

RECURSIVE TrimStart(_)
TrimStart(str) ==
  IF str # <<>> /\ Head(str) = " " THEN TrimStart(Tail(str)) ELSE str

RECURSIVE TrimEnd(_)
TrimEnd(str) ==
  IF str # <<>> /\ str[Len(str)] = " "
  THEN TrimEnd(SubSeq(str, 1, Len(str) - 1))
  ELSE str

trimNothing(str) == str

\* String.prototype.trim
trim(str) == TrimEnd(TrimStart(str))

\* the users the profile service and other consumers can produce
UserData ==
  [u1 |-> [username |-> <<"b">>, email |-> <<"e">>, avatar |-> <<>>],
   u2 |-> [username |-> <<"c">>, email |-> <<"E">>, avatar |-> << <<"p">> >>]]

\* user.avatar ?? ''
AvatarOrEmpty(u) == IF UserData[u].avatar = <<>> THEN <<>> ELSE UserData[u].avatar[1]

\* what a user can type into each field
Typed ==
  [username |-> {<<"b", " ">>, <<>>},
   email |-> {<<" ", "E">>, <<"f">>},
   avatar |-> {<<" ">>, <<"p">>},
   password |-> {<<"x">>},
   passwordConfirmation |-> {<<"x">>, <<"y">>}]

FormFields == {"username", "email", "avatar", "password", "passwordConfirmation"}

(* --------------------- the Set<Listener> of listeners ------------------- *)
\* The Set is its entries in insertion order.  A forEach in progress is a
\* position in that order; deleting an entry before the position moves the
\* position back by one, so the forEach visits exactly the entries it has
\* not reached yet, those added meanwhile included, and none that has been
\* deleted meanwhile.
Has(entries, l) == \E i \in DOMAIN entries : entries[i] = l

IndexOf(entries, l) ==
  IF Has(entries, l) THEN CHOOSE i \in DOMAIN entries : entries[i] = l ELSE 0

\* Set.prototype.add: appends unless present
SetAdd(entries, l) == IF Has(entries, l) THEN entries ELSE Append(entries, l)

SetDeleteNoop(entries, l) == entries

\* Set.prototype.delete
SetDelete(entries, l) == SelectSeq(entries, LAMBDA e : e # l)

\* the running forEach positions after the entry at position p was deleted
AfterDelete(stk, p) ==
  [i \in DOMAIN stk |->
     IF stk[i].kind = "notify" /\ p # 0 /\ stk[i].idx > p
     THEN [stk[i] EXCEPT !.idx = @ - 1]
     ELSE stk[i]]

(* ------------------------------ variables ------------------------------ *)
VARIABLES
  cachedUser,    \* userCache: let cachedUser
  listeners,     \* userCache: const listeners (entry list of the Set)
  stack,         \* call stack: notify frames and listener-callback frames
  closures,      \* per listener: unsubscribe closures returned by subscribe
  unsubscribed,  \* listeners whose closure ran and that did not subscribe since
  delivered,     \* <<listener, value>> calls made by the outermost fan-out,
                 \* and the replays of listeners added while it runs
  nested,        \* cache calls made from callbacks since the top-level call
  lastEvent,     \* the call or step that produced this state
  ctl,           \* per controller instance: its React state, ref and flags
  navigated,     \* paths passed to navigate() by the last handler
  apiCalls,      \* authAPI calls issued by the last handler
  edits          \* field edits typed so far

cacheVars == <<cachedUser, listeners, stack, closures, unsubscribed,
               delivered, nested, lastEvent>>

ctlVars == <<ctl, navigated, apiCalls, edits>>

vars == <<cacheVars, ctlVars>>

Frame(kind, l, v, idx) == [kind |-> kind, l |-> l, v |-> v, idx |-> idx]
\* op: the call or step, l: its listener, v: its value, n: the stack height
\* it was made at, was: the cached user a controller's handler found
Event(op, l, v) ==
  [op |-> op, l |-> l, v |-> v, n |-> Len(stack), was |-> Null]
\* the event of a handler whose effect on the cache is of interest
Handled(op, l, v) == [Event(op, l, v) EXCEPT !.was = cachedUser]

Top == stack[Len(stack)]
Pop(stk) == SubSeq(stk, 1, Len(stk) - 1)
Idle == stack = <<>>
InCallback == stack # <<>> /\ Top.kind \in {"replay", "listener"}
\* a cache method is called from top-level code or from a running callback
CanCall == Idle \/ (InCallback /\ nested < MaxNested)
\* the count of nested calls once a further cache call is made
Count(n) == IF Idle THEN 0 ELSE n + 1

InitCache ==
  /\ cachedUser = Null
  /\ listeners = <<>>
  /\ stack = <<>>
  /\ closures = [l \in Generic |-> [fresh |-> 0, stale |-> FALSE]]
  /\ unsubscribed = {}
  /\ delivered = <<>>
  /\ nested = 0
  /\ lastEvent = Event("init", NoListener, Null)

(* ------------------------ userCache, step by step ----------------------- *)
\* the value a callback is handed: notify and subscribe read cachedUser at
\* the moment of the call
Handed(current, assigned) == current

AdvanceSkip(idx) == idx + 2

\* position of the next entry forEach looks at
Advance(idx) == idx + 1

ReplayLater(l, v) == <<>>

\* subscribe's own call of the listener: listener(cachedUser)
Replay(l, v) == <<Frame("replay", l, v, 0)>>

\* the entry forEach visits next, 0 when the list is exhausted
NextEntry(entries, idx) == IF idx <= Len(entries) THEN idx ELSE 0

\* cachedUser = user; notify()   -- notify starts its forEach
Mutate(user, op) ==
  /\ CanCall
  /\ cachedUser' = user
  /\ stack' = Append(stack, Frame("notify", NoListener, user, 1))
  /\ delivered' = IF Idle THEN <<>> ELSE delivered
  /\ nested' = Count(nested)
  /\ lastEvent' = Event(op, NoListener, user)
  /\ UNCHANGED <<listeners, closures, unsubscribed>>
  /\ UNCHANGED ctlVars

setCurrentUser(user) == Mutate(user, "set")

clear == Mutate(Null, "clear")

\* listeners.forEach: the next listener is called with cachedUser
notifyInvoke ==
  /\ stack # <<>> /\ Top.kind = "notify"
  /\ NextEntry(listeners, Top.idx) # 0
  /\ LET i == NextEntry(listeners, Top.idx)
         l == listeners[i]
         v == Handed(cachedUser, Top.v)
     IN /\ stack' = Append([stack EXCEPT ![Len(stack)].idx = Advance(i)],
                           Frame("listener", l, v, 0))
        /\ delivered' = IF Len(stack) = 1 THEN Append(delivered, <<l, v>>)
                        ELSE delivered
        /\ lastEvent' = Event("invoke", l, v)
  /\ UNCHANGED <<cachedUser, listeners, closures, unsubscribed, nested>>
  /\ UNCHANGED ctlVars

\* listeners.forEach is exhausted: notify, and with it the mutation, returns
notifyDone ==
  /\ stack # <<>> /\ Top.kind = "notify"
  /\ NextEntry(listeners, Top.idx) = 0
  /\ stack' = Pop(stack)
  /\ lastEvent' = Event("fanoutDone", NoListener, Top.v)
  /\ UNCHANGED <<cachedUser, listeners, closures, unsubscribed, delivered,
                 nested>>
  /\ UNCHANGED ctlVars

\* the entry of delivered for the replay of a listener that subscribe added
\* to the Set while a top-level fan-out runs
Joined(l, v) == <<l, v, "new">>

\* listeners.add(listener); listener(cachedUser)
subscribe(l) ==
  /\ CanCall
  /\ closures[l].fresh
       + Cardinality({i \in DOMAIN stack :
                        stack[i].kind = "replay" /\ stack[i].l = l}) < MaxSubs
  /\ listeners' = SetAdd(listeners, l)
  /\ stack' = stack \o Replay(l, Handed(cachedUser, Null))
  /\ unsubscribed' = unsubscribed \ {l}
  /\ nested' = Count(nested)
  /\ delivered' = IF stack # <<>> /\ stack[1].kind = "notify" /\ ~Has(listeners, l)
                  THEN Append(delivered, Joined(l, Handed(cachedUser, Null)))
                  ELSE delivered
  /\ lastEvent' = Event("subscribe", l, cachedUser)
  /\ UNCHANGED <<cachedUser, closures>>
  /\ UNCHANGED ctlVars

\* a callback returns; the replay's return is subscribe returning its closure
return ==
  /\ InCallback
  /\ stack' = Pop(stack)
  /\ closures' = IF Top.kind = "replay"
                 THEN [closures EXCEPT ![Top.l].fresh = @ + 1]
                 ELSE closures
  /\ lastEvent' = Event("return", Top.l, Top.v)
  /\ UNCHANGED <<cachedUser, listeners, unsubscribed, delivered, nested>>
  /\ UNCHANGED ctlVars

\* the closure returned by subscribe: listeners.delete(listener).
\* which = "fresh": a closure that was never called; "stale": one that was
unsubscribe(l, which) ==
  /\ CanCall
  /\ IF which = "fresh" THEN closures[l].fresh > 0 ELSE closures[l].stale
  /\ listeners' = SetDelete(listeners, l)
  /\ stack' = IF listeners' = listeners THEN stack
              ELSE AfterDelete(stack, IndexOf(listeners, l))
  /\ closures' = [closures EXCEPT
                    ![l] = [fresh |-> IF which = "fresh" THEN @.fresh - 1
                                      ELSE @.fresh,
                            stale |-> TRUE]]
  /\ unsubscribed' = unsubscribed \cup {l}
  /\ nested' = Count(nested)
  /\ lastEvent' = Event(IF which = "fresh" THEN "unsubscribe" ELSE "unsubscribeAgain",
                        l, cachedUser)
  /\ UNCHANGED <<cachedUser, delivered>>
  /\ UNCHANGED ctlVars

(* ------------------------- AccountSettingsPage -------------------------- *)
NoMessage == ""
LoadFailed == "Failed to load account details."
NotLoaded == "Unable to update profile until your account loads."
Mismatch == "Passwords do not match."
NothingToUpdate == "Nothing to update -- your settings are already current."
Updated == "Profile updated successfully."
UpdateFailed == "Failed to update account settings."
Unexpected == "An unexpected error occurred while saving your settings."
LoginPath == "/login"

\* no authAPI.updateCurrentUser call in flight
NoPayload == [sent |-> FALSE, fields |-> <<>>]

defaultFormState(user) ==
  [username |-> IF user = Null THEN <<>> ELSE UserData[user].username,
   email |-> IF user = Null THEN <<>> ELSE UserData[user].email,
   avatar |-> IF user = Null THEN <<>> ELSE AvatarOrEmpty(user),
   password |-> <<>>,
   passwordConfirmation |-> <<>>]

\* an instance that has not rendered yet
Unrendered ==
  [phase |-> "new", currentUser |-> Null, formState |-> defaultFormState(Null),
   isLoading |-> FALSE, isSubmitting |-> FALSE, fieldErrors |-> <<>>,
   successMessage |-> NoMessage, loadError |-> NoMessage,
   hasInitializedRef |-> FALSE, isMounted |-> FALSE,
   fetch |-> "none", submit |-> NoPayload]

InitControllers ==
  /\ ctl = [c \in Controllers |-> Unrendered]
  /\ navigated = <<>>
  /\ apiCalls = <<>>
  /\ edits = 0

Init == InitCache /\ InitControllers

\* the callback handed to userCache.subscribe; a controller whose
\* isMounted is false returns at once
Alive(st) == st.isMounted

ReseedsAlways(flag, user) == user # Null

\* if (nextUser && !hasInitializedRef.current)
Reseeds(flag, user) == user # Null /\ ~flag

callbackKeepsFlag(st, nextUser) ==
  IF ~Alive(st) THEN st
  ELSE LET s1 == [st EXCEPT !.currentUser = nextUser]
           s2 == IF nextUser # Null
                 THEN [s1 EXCEPT !.loadError = NoMessage, !.isLoading = FALSE]
                 ELSE s1
           s3 == IF Reseeds(s2.hasInitializedRef, nextUser)
                 THEN [s2 EXCEPT !.formState = defaultFormState(nextUser),
                                 !.hasInitializedRef = TRUE]
                 ELSE s2
       IN IF nextUser = Null
          THEN [s3 EXCEPT !.isLoading = FALSE,
                          !.formState = defaultFormState(Null)]
          ELSE s3

callback(st, nextUser) ==
  IF ~Alive(st) THEN st
  ELSE LET s1 == [st EXCEPT !.currentUser = nextUser]
           s2 == IF nextUser # Null
                 THEN [s1 EXCEPT !.loadError = NoMessage, !.isLoading = FALSE]
                 ELSE s1
           s3 == IF Reseeds(s2.hasInitializedRef, nextUser)
                 THEN [s2 EXCEPT !.formState = defaultFormState(nextUser),
                                 !.hasInitializedRef = TRUE]
                 ELSE s2
       IN IF nextUser = Null
          THEN [s3 EXCEPT !.hasInitializedRef = FALSE,
                          !.isLoading = FALSE,
                          !.formState = defaultFormState(Null)]
          ELSE s3

\* notify() when no callback calls the cache: listeners.forEach from entry i
RECURSIVE NotifyFrom(_, _, _, _)
NotifyFrom(state, entries, i, user) ==
  IF NextEntry(entries, i) = 0 THEN state
  ELSE NotifyFrom(IF entries[i] \in Controllers
                  THEN [state EXCEPT ![entries[i]] = callback(@, Handed(user, user))]
                  ELSE state,
                  entries, Advance(i), user)

\* the calls that forEach makes, in order
RECURSIVE CallsFrom(_, _, _)
CallsFrom(entries, i, user) ==
  IF NextEntry(entries, i) = 0 THEN <<>>
  ELSE <<<<entries[i], Handed(user, user)>>>> \o CallsFrom(entries, Advance(i), user)

\* userCache.setCurrentUser(user) / userCache.clear() at top level: the
\* assignment and the calls of the fan-out; Notified is what the fan-out
\* makes of the controllers
WriteCache(user) ==
  /\ cachedUser' = user
  /\ delivered' = CallsFrom(listeners, 1, user)

NotifiedFirst(state, user) ==
  NotifyFrom(state, IF listeners = <<>> THEN <<>> ELSE <<listeners[1]>>, 1, user)

Notified(state, user) == NotifyFrom(state, listeners, 1, user)

NoWrite ==
  /\ cachedUser' = cachedUser
  /\ delivered' = <<>>

\* another consumer of the cache signs the user in or refreshes the user
otherSetCurrentUser(user) ==
  /\ WriteCache(user)
  /\ ctl' = Notified(ctl, user)
  /\ lastEvent' = Event("set", NoListener, user)
  /\ navigated' = <<>> /\ apiCalls' = <<>>
  /\ UNCHANGED <<listeners, stack, closures, unsubscribed, nested, edits>>

\* another consumer signs the user out
otherClear ==
  /\ WriteCache(Null)
  /\ ctl' = Notified(ctl, Null)
  /\ lastEvent' = Event("clear", NoListener, Null)
  /\ navigated' = <<>> /\ apiCalls' = <<>>
  /\ UNCHANGED <<listeners, stack, closures, unsubscribed, nested, edits>>

\* another consumer subscribes a listener that only reads the value
otherSubscribe(l) ==
  /\ ~Has(listeners, l)
  /\ listeners' = SetAdd(listeners, l)
  /\ delivered' = <<<<l, Handed(cachedUser, Null)>>>>
  /\ unsubscribed' = unsubscribed \ {l}
  /\ lastEvent' = Event("subscribe", l, cachedUser)
  /\ navigated' = <<>> /\ apiCalls' = <<>>
  /\ UNCHANGED <<cachedUser, stack, closures, nested, ctl, edits>>

\* and calls the closure it got
otherUnsubscribe(l) ==
  /\ Has(listeners, l)
  /\ listeners' = SetDelete(listeners, l)
  /\ delivered' = <<>>
  /\ unsubscribed' = unsubscribed \cup {l}
  /\ lastEvent' = Event("unsubscribe", l, cachedUser)
  /\ navigated' = <<>> /\ apiCalls' = <<>>
  /\ UNCHANGED <<cachedUser, stack, closures, nested, ctl, edits>>

\* the component function runs for a new instance: the useState / useRef
\* initial values are taken from userCache.getCurrentUser()
render(c) ==
  /\ ctl[c].phase = "new"
  /\ ctl' = [ctl EXCEPT ![c] =
       [Unrendered EXCEPT
          !.phase = "rendered",
          !.currentUser = cachedUser,
          !.formState = defaultFormState(cachedUser),
          !.isLoading = (cachedUser = Null),
          !.hasInitializedRef = (cachedUser # Null)]]
  /\ lastEvent' = Event("render", c, cachedUser)
  /\ delivered' = <<>> /\ navigated' = <<>> /\ apiCalls' = <<>>
  /\ UNCHANGED <<cachedUser, listeners, stack, closures, unsubscribed, nested, edits>>

FetchesAlways(flag) == TRUE

\* if (!hasInitializedRef.current) void fetchUser()
Fetches(flag) == ~flag

\* useEffect: subscribe (with its replay), then fetchUser up to its await
effect(c) ==
  /\ ctl[c].phase = "rendered"
  /\ LET s0 == [ctl[c] EXCEPT !.phase = "active", !.isMounted = TRUE]
         s1 == callback(s0, Handed(cachedUser, Null))
         go == Fetches(s1.hasInitializedRef)
         s2 == IF go
               THEN [s1 EXCEPT !.isLoading = TRUE, !.loadError = NoMessage,
                               !.fetch = "pending"]
               ELSE s1
     IN /\ ctl' = [ctl EXCEPT ![c] = s2]
        /\ apiCalls' = IF go THEN <<"getCurrentUser">> ELSE <<>>
  /\ listeners' = SetAdd(listeners, c)
  /\ unsubscribed' = unsubscribed \ {c}
  /\ lastEvent' = Event("effect", c, cachedUser)
  /\ delivered' = <<>> /\ navigated' = <<>>
  /\ UNCHANGED <<cachedUser, stack, closures, nested, edits>>

\* the effect's cleanup on unmount
cleanup(c) ==
  /\ ctl[c].phase = "active"
  /\ ctl' = [ctl EXCEPT ![c].phase = "defunct", ![c].isMounted = FALSE]
  /\ listeners' = SetDelete(listeners, c)
  /\ unsubscribed' = unsubscribed \cup {c}
  /\ lastEvent' = Event("cleanup", c, cachedUser)
  /\ delivered' = <<>> /\ navigated' = <<>> /\ apiCalls' = <<>>
  /\ UNCHANGED <<cachedUser, stack, closures, nested, edits>>

\* fetchUser after its await: authAPI.getCurrentUser() resolved with user
fetchResolve(c, user) ==
  /\ ctl[c].fetch = "pending"
  /\ LET done == [ctl EXCEPT ![c].fetch = "done"]
     IN IF Alive(ctl[c])
        THEN WriteCache(user) /\ ctl' = Notified(done, user)
        ELSE NoWrite /\ ctl' = done
  /\ lastEvent' = Handled("fetchResolve", c, user)
  /\ navigated' = <<>> /\ apiCalls' = <<>>
  /\ UNCHANGED <<listeners, stack, closures, unsubscribed, nested, edits>>

LoadFailureKeepsLoading(st) == [st EXCEPT !.loadError = LoadFailed]

\* setLoadError('Failed to load account details.'); setIsLoading(false)
LoadFailure(st) == [st EXCEPT !.loadError = LoadFailed, !.isLoading = FALSE]

\* fetchUser's catch: authAPI.getCurrentUser() rejected, with whatever
\* status (401 included)
fetchReject(c, status) ==
  /\ ctl[c].fetch = "pending"
  /\ LET done == [ctl EXCEPT ![c].fetch = "done"]
     IN ctl' = IF ~Alive(ctl[c]) THEN done
               ELSE [done EXCEPT ![c] = LoadFailure(@)]
  /\ NoWrite
  /\ lastEvent' = Handled("fetchReject", c, status)
  /\ navigated' = <<>> /\ apiCalls' = <<>>
  /\ UNCHANGED <<listeners, stack, closures, unsubscribed, nested, edits>>

\* the fieldsets and the submit button are disabled while loading or saving
Enabled(st) == st.phase = "active" /\ ~(st.isLoading \/ st.isSubmitting)

handleFieldChange(c, field, value) ==
  /\ Enabled(ctl[c])
  /\ edits < MaxEdits
  /\ edits' = edits + 1
  /\ ctl' = [ctl EXCEPT ![c].formState[field] = value]
  /\ lastEvent' = Event("change", c, field)
  /\ delivered' = <<>> /\ navigated' = <<>> /\ apiCalls' = <<>>
  /\ UNCHANGED <<cachedUser, listeners, stack, closures, unsubscribed, nested>>

\* formState.avatar.trim()
trimmedAvatar(form) == trim(form.avatar)

hasProfileChanges(st) ==
  IF st.currentUser = Null THEN FALSE
  ELSE \/ trim(st.formState.username) # UserData[st.currentUser].username
       \/ toLowerCase(trim(st.formState.email))
            # toLowerCase(UserData[st.currentUser].email)
       \/ trimmedAvatar(st.formState) # AvatarOrEmpty(st.currentUser)

hasBothPasswords(st) ==
  Len(st.formState.password) > 0 /\ Len(st.formState.passwordConfirmation) > 0

hasPasswordChanges(st) ==
  Len(st.formState.password) > 0 \/ Len(st.formState.passwordConfirmation) > 0

keepPasswordFields(form) == form

resetPasswordFields(form) ==
  [form EXCEPT !.password = <<>>, !.passwordConfirmation = <<>>]

\* the keys handleSubmit puts into the UpdateCurrentUserRequest
PayloadKeys(st) ==
  LET form == st.formState
      user == UserData[st.currentUser]
  IN {k \in {"username"} :
        /\ hasProfileChanges(st)
        /\ trim(form.username) # <<>>
        /\ trim(form.username) # user.username}
     \cup {k \in {"email"} :
        /\ hasProfileChanges(st)
        /\ trim(form.email) # <<>>
        /\ toLowerCase(trim(form.email)) # toLowerCase(user.email)}
     \cup {k \in {"avatar"} :
        /\ hasProfileChanges(st)
        /\ trimmedAvatar(form) # AvatarOrEmpty(st.currentUser)}
     \cup {k \in {"password", "password_confirmation"} : hasPasswordChanges(st)}

\* the request: each key with its (optional: avatar may be null) value
Payload(st) ==
  LET form == st.formState
  IN [k \in PayloadKeys(st) |->
        CASE k = "username" -> <<trim(form.username)>>
          [] k = "email" -> <<trim(form.email)>>
          [] k = "avatar" -> IF Len(trimmedAvatar(form)) > 0
                             THEN <<trimmedAvatar(form)>> ELSE <<>>
          [] k = "password" -> <<form.password>>
          [] k = "password_confirmation" -> <<form.passwordConfirmation>>]

\* handleSubmit up to its await
handleSubmit(c) ==
  /\ Enabled(ctl[c])
  /\ LET st == [ctl[c] EXCEPT !.fieldErrors = <<>>, !.successMessage = NoMessage]
     IN IF st.currentUser = Null
        THEN /\ ctl' = [ctl EXCEPT ![c] = [st EXCEPT !.fieldErrors = ("general" :> NotLoaded)]]
             /\ apiCalls' = <<>>
             /\ lastEvent' = Handled("submitNoUser", c, Null)
        ELSE IF hasPasswordChanges(st)
                /\ st.formState.password # st.formState.passwordConfirmation
        THEN /\ ctl' = [ctl EXCEPT ![c] =
                  [st EXCEPT !.fieldErrors = ("passwordConfirmation" :> Mismatch)]]
             /\ apiCalls' = <<>>
             /\ lastEvent' = Handled("submitMismatch", c, Null)
        ELSE IF DOMAIN Payload(st) = {}
        THEN /\ ctl' = [ctl EXCEPT ![c] = [st EXCEPT !.successMessage = NothingToUpdate]]
             /\ apiCalls' = <<>>
             /\ lastEvent' = Handled("submitNothing", c, Null)
        ELSE /\ ctl' = [ctl EXCEPT ![c] =
                  [st EXCEPT !.isSubmitting = TRUE,
                             !.submit = [sent |-> TRUE, fields |-> Payload(st)]]]
             /\ apiCalls' = <<"updateCurrentUser">>
             /\ lastEvent' = Handled("submitSent", c, Null)
  /\ delivered' = <<>> /\ navigated' = <<>>
  /\ UNCHANGED <<cachedUser, listeners, stack, closures, unsubscribed, nested, edits>>

\* the finally block: setIsSubmitting(false); resetPasswordFields()
Finally(st) ==
  [st EXCEPT !.isSubmitting = FALSE,
             !.formState = resetPasswordFields(@),
             !.submit = NoPayload]

KeepDraft(form, updatedUser) == resetPasswordFields(form)

\* the setFormState after a successful update: the returned user's fields
ServerFields(form, updatedUser) ==
  [form EXCEPT !.username = UserData[updatedUser].username,
               !.email = UserData[updatedUser].email,
               !.avatar = AvatarOrEmpty(updatedUser),
               !.password = <<>>,
               !.passwordConfirmation = <<>>]

\* handleSubmit after its await: authAPI.updateCurrentUser resolved
submitResolve(c, updatedUser) ==
  /\ ctl[c].submit.sent
  /\ WriteCache(updatedUser)
  /\ ctl' = [Notified(ctl, updatedUser) EXCEPT ![c] =
       Finally([@ EXCEPT !.formState = ServerFields(@, updatedUser),
                         !.successMessage = Updated])]
  /\ lastEvent' = Handled("submitResolve", c, updatedUser)
  /\ navigated' = <<>> /\ apiCalls' = <<>>
  /\ UNCHANGED <<listeners, stack, closures, unsubscribed, nested, edits>>

\* the ways authAPI.updateCurrentUser can reject: with a response (status
\* and body: errors, an object in key order when present, and error, a
\* string that is falsy when empty) or without one
OneMessage(m) == [isArray |-> FALSE, items |-> <<m>>]
Messages(ms) == [isArray |-> TRUE, items |-> ms]
Response(status, hasErrors, errors, error) ==
  [response |-> TRUE, status |-> status, hasErrors |-> hasErrors,
   errors |-> errors, error |-> error]
FailureData ==
  [unauthorized |-> Response(401, TRUE, <<<<"email", OneMessage("expired")>>>>, "Unauthorized"),
   invalid |-> Response(422, TRUE,
                 <<<<"password_confirmation", Messages(<<"too short", "no match">>)>>,
                   <<"email", OneMessage("taken")>>>>, ""),
   rejected |-> Response(422, TRUE,
                 <<<<"base", OneMessage("locked")>>, <<"username", OneMessage("taken")>>>>, ""),
   inherited |-> Response(422, TRUE, <<<<"constructor", OneMessage("invalid")>>>>, ""),
   refused |-> Response(400, FALSE, <<>>, "Bad request"),
   broken |-> Response(500, FALSE, <<>>, ""),
   offline |-> [response |-> FALSE, status |-> 0, hasErrors |-> FALSE,
                errors |-> <<>>, error |-> ""]]
Failures == DOMAIN FailureData

\* value.join(' ')
RECURSIVE Join(_)
Join(items) ==
  IF items = <<>> THEN ""
  ELSE IF Len(items) = 1 THEN items[1]
  ELSE items[1] \o " " \o Join(Tail(items))

\* Array.isArray(value) ? value.join(' ') : value
MessageOf(value) == IF value.isArray THEN Join(value.items) ELSE value.items[1]

\* property names every object literal inherits from Object.prototype
\* (two of them stand for all)
ObjectPrototype == {"constructor", "toString"}

\* key in formState: own properties and inherited ones
InFormState(key) == key \in FormFields \cup ObjectPrototype

\* the fieldErrors key a server key is reported under
FieldOf(key) ==
  IF key = "password_confirmation" THEN "passwordConfirmation"
  ELSE IF InFormState(key) THEN key
  ELSE "general"

\* the for loop over Object.entries(data.errors)
RECURSIVE MapErrors(_, _)
MapErrors(entries, acc) ==
  IF entries = <<>> THEN acc
  ELSE MapErrors(Tail(entries),
                 (FieldOf(entries[1][1]) :> MessageOf(entries[1][2])) @@ acc)

\* the fieldErrors a rejection that is not a 401 leaves
ErrorsOf(failure) ==
  IF ~failure.response THEN ("general" :> Unexpected)
  ELSE IF failure.hasErrors THEN MapErrors(failure.errors, <<>>)
  ELSE IF failure.error # "" THEN ("general" :> failure.error)
  ELSE ("general" :> UpdateFailed)

IsAnyResponse(failure) == failure.response

NeverUnauthorized(failure) == FALSE

\* isAxiosError(error) && error.response && error.response.status === 401
IsUnauthorized(failure) == failure.response /\ failure.status = 401

\* handleSubmit's catch and finally: authAPI.updateCurrentUser rejected
submitReject(c, f) ==
  /\ ctl[c].submit.sent
  /\ IF IsUnauthorized(FailureData[f])
     THEN /\ WriteCache(Null)
          /\ ctl' = [Notified(ctl, Null) EXCEPT ![c] = Finally(@)]
          /\ navigated' = <<LoginPath>>
     ELSE /\ NoWrite
          /\ ctl' = [ctl EXCEPT ![c] =
                       Finally([@ EXCEPT !.fieldErrors = ErrorsOf(FailureData[f])])]
          /\ navigated' = <<>>
  /\ lastEvent' = Handled("submitReject", c, f)
  /\ apiCalls' = <<>>
  /\ UNCHANGED <<listeners, stack, closures, unsubscribed, nested, edits>>

NextCache ==
  \/ \E u \in Users : setCurrentUser(u)
  \/ clear
  \/ notifyInvoke
  \/ notifyDone
  \/ \E l \in Generic : subscribe(l)
  \/ return
  \/ \E l \in Generic, which \in {"fresh", "stale"} : unsubscribe(l, which)

SpecCache == Init /\ [][NextCache]_vars

Next ==
  \/ \E u \in Users : otherSetCurrentUser(u)
  \/ otherClear
  \/ \E l \in Observers : otherSubscribe(l)
  \/ \E l \in Observers : otherUnsubscribe(l)
  \/ \E c \in Pages : render(c)
  \/ \E c \in Pages : effect(c)
  \/ \E c \in Pages : cleanup(c)
  \/ \E c \in Pages, u \in Users : fetchResolve(c, u)
  \/ \E c \in Pages, status \in {401, 500} : fetchReject(c, status)
  \/ \E c \in Pages, field \in FormFields :
        \E value \in Typed[field] : handleFieldChange(c, field, value)
  \/ \E c \in Pages : handleSubmit(c)
  \/ \E c \in Pages, u \in Users : submitResolve(c, u)
  \/ \E c \in Pages, f \in Failures : submitReject(c, f)

Spec == Init /\ [][Next]_vars

(* ======================= properties of the cache ======================== *)
NotifyFrames == {i \in DOMAIN stack : stack[i].kind = "notify"}

\* C1: a call subscribe(listener) calls the listener exactly once, inside the
\* call, with the value the cache holds at that moment; the listener is
\* registered and replayed in the same step, so no fan-out reaches it first.
SubscribeReplaysCurrentValue ==
  lastEvent.op = "subscribe" =>
    /\ Has(listeners, lastEvent.l)
    /\ Len(stack) = lastEvent.n + 1
    /\ Top = Frame("replay", lastEvent.l, cachedUser, 0)
    /\ lastEvent.v = cachedUser

\* a listener subscribes from inside a fan-out while the cache holds a user
SubscribeReplayReached ==
  /\ lastEvent.op = "subscribe"
  /\ cachedUser \in Users
  /\ lastEvent.n > 0
  /\ Len(listeners) = 2

NoCallAfterUnsubscribe ==
  lastEvent.op = "invoke" => lastEvent.l \notin unsubscribed

\* a listener has unsubscribed itself from inside its own notification while
\* a second listener was still to be notified
UnsubscribedInsideOwnCallback ==
  /\ lastEvent.op = "unsubscribe"
  /\ stack # <<>> /\ Top.kind = "listener" /\ Top.l = lastEvent.l
  /\ stack[1].kind = "notify" /\ stack[1].idx <= Len(listeners)

\* C4: a mutation made from inside a notification callback is deferred, so
\* no fan-out starts while another is still running.
FanoutsNeverInterleave == Cardinality(NotifyFrames) <= 1

(* ===================== properties of the controller ===================== *)
\* the controller the last event belongs to
Last == ctl[lastEvent.l]

SubmitStarts == {"submitNoUser", "submitMismatch", "submitNothing", "submitSent"}

\* C5: once a controller is unmounted, the completion of its fetch or of
\* its submission changes nothing: not the controller's state, not the
\* cache, and it notifies and navigates nowhere.
DefunctCompletionIsNoOp ==
  [][\A c \in Controllers :
       (/\ ctl[c].phase = "defunct"
        /\ \/ ctl[c].submit.sent /\ ~ctl'[c].submit.sent
           \/ ctl[c].fetch = "pending" /\ ctl'[c].fetch = "done")
       => /\ cachedUser' = cachedUser
          /\ delivered' = <<>>
          /\ navigated' = <<>>
          /\ [ctl'[c] EXCEPT !.submit = NoPayload, !.fetch = "done"]
               = [ctl[c] EXCEPT !.submit = NoPayload, !.fetch = "done"]]_vars

\* C6: after a 401 response to a submission the cache holds null, every
\* registered listener has been called with null, navigate('/login') has
\* been called once and the attempt has set no field or general error.
UnauthorizedSubmitSignsOut ==
  (lastEvent.op = "submitReject" /\ FailureData[lastEvent.v].status = 401) =>
    /\ cachedUser = Null
    /\ delivered = [i \in DOMAIN listeners |-> <<listeners[i], Null>>]
    /\ navigated = <<LoginPath>>
    /\ Last.fieldErrors = <<>>

\* a mounted controller with a cached user has received a 401
UnauthorizedSubmitReached ==
  /\ lastEvent.op = "submitReject" /\ FailureData[lastEvent.v].status = 401
  /\ lastEvent.was \in Users
  /\ listeners = <<lastEvent.l>>

SuccessStoresReturnedUser ==
  lastEvent.op = "submitResolve" =>
    /\ cachedUser = lastEvent.v
    /\ Last.formState.username = UserData[lastEvent.v].username
    /\ Last.formState.email = UserData[lastEvent.v].email
    /\ Last.formState.avatar = AvatarOrEmpty(lastEvent.v)
    /\ Last.formState.password = <<>>
    /\ Last.formState.passwordConfirmation = <<>>

\* a mounted controller that was seeded from one user got another one back
SuccessReached ==
  /\ lastEvent.op = "submitResolve"
  /\ Last.isMounted
  /\ lastEvent.was = "u1" /\ lastEvent.v = "u2"

\* C9: a failed fetch and every submission failure other than a 401
\* response (local rejections, validation errors, other responses, no
\* response) leave the cached user as it was and call no listener.
OnlyUnauthorizedTouchesCache ==
  (\/ lastEvent.op \in {"fetchReject", "submitNoUser", "submitMismatch"}
   \/ /\ lastEvent.op = "submitReject"
      /\ ~(FailureData[lastEvent.v].response /\ FailureData[lastEvent.v].status = 401))
  => /\ cachedUser = lastEvent.was
     /\ delivered = <<>>

\* a validation error came back while a user was cached and a listener
\* registered
ValidationFailureReached ==
  /\ lastEvent.op = "submitReject" /\ lastEvent.v = "invalid"
  /\ cachedUser \in Users
  /\ listeners # <<>>

\* a string without its blanks (the strings of this model have none inside)
WithoutBlanks(str) == SelectSeq(str, LAMBDA ch : ch # " ")

\* the form equals the user under the comparison rules
SameAsUser(form, user) ==
  /\ WithoutBlanks(form.username) = UserData[user].username
  /\ toLowerCase(WithoutBlanks(form.email)) = toLowerCase(UserData[user].email)
  /\ WithoutBlanks(form.avatar) = AvatarOrEmpty(user)
  /\ form.password = <<>>
  /\ form.passwordConfirmation = <<>>

\* C10: submitting a form that equals the cached user under the comparison
\* rules, with both password fields empty, calls no service, does not enter
\* Submitting, leaves the cache alone and reports "nothing to update".
UnchangedFormSendsNothing ==
  (/\ lastEvent.op \in SubmitStarts
   /\ cachedUser # Null
   /\ SameAsUser(Last.formState, cachedUser))
  => /\ lastEvent.op = "submitNothing"
     /\ apiCalls = <<>>
     /\ ~Last.isSubmitting /\ ~Last.submit.sent
     /\ cachedUser = lastEvent.was /\ delivered = <<>>
     /\ Last.successMessage = NothingToUpdate

\* a form that differs from the cached user only in blanks or letter case was
\* submitted
UnchangedFormReached ==
  /\ lastEvent.op = "submitNothing"
  /\ cachedUser # Null
  /\ SameAsUser(Last.formState, cachedUser)
  /\ Last.formState # defaultFormState(cachedUser)

\* a submission of a form whose password fields are not both empty and differ
\* (handleSubmit leaves the form as it found it)
MismatchedSubmit ==
  /\ lastEvent.op \in SubmitStarts
  /\ Len(Last.formState.password) > 0 \/ Len(Last.formState.passwordConfirmation) > 0
  /\ Last.formState.password # Last.formState.passwordConfirmation

\* C11 as stated: submitting mismatched password fields sets a
\* confirmation-field error, calls no service, does not enter Submitting and
\* leaves the cache alone, whatever else the controller holds.
MismatchSetsConfirmationError ==
  MismatchedSubmit =>
    /\ "passwordConfirmation" \in DOMAIN Last.fieldErrors
    /\ apiCalls = <<>>
    /\ ~Last.isSubmitting /\ ~Last.submit.sent
    /\ cachedUser = lastEvent.was /\ delivered = <<>>

\* C11 as amended: submitting mismatched password fields calls no service,
\* does not enter Submitting and leaves the cache alone; with a current user
\* the only error set is the confirmation-field error, without one it is the
\* general "account not loaded" error.
MismatchIsRejectedLocally ==
  MismatchedSubmit =>
    /\ apiCalls = <<>>
    /\ ~Last.isSubmitting /\ ~Last.submit.sent
    /\ cachedUser = lastEvent.was /\ delivered = <<>>
    /\ Last.currentUser # Null =>
         Last.fieldErrors = ("passwordConfirmation" :> Mismatch)
    /\ Last.currentUser = Null =>
         Last.fieldErrors = ("general" :> NotLoaded)

\* a form with an edited username, a password and no confirmation was
\* submitted by a controller that has a current user
MismatchReached ==
  /\ MismatchedSubmit
  /\ Last.currentUser # Null
  /\ Last.formState.passwordConfirmation = <<>>
  /\ Last.formState.username # UserData[Last.currentUser].username

\* the ways a submission can end: rejected by handleSubmit itself, or
\* answered (or failed) by the profile service
LocalRejections == {"submitNoUser", "submitMismatch", "submitNothing"}
Completions == {"submitResolve", "submitReject"}

\* C12 as stated: every submission attempt, whatever its outcome, ends with
\* both password fields empty and the submitting flag false.
EverySubmitClearsPasswords ==
  lastEvent.op \in LocalRejections \cup Completions =>
    /\ Last.formState.password = <<>>
    /\ Last.formState.passwordConfirmation = <<>>
    /\ ~Last.isSubmitting

\* C12 as amended: every submission that reached the profile service ends,
\* whatever the answer, with both password fields empty and the submitting
\* flag false; a submission that handleSubmit rejects itself never sets the
\* flag and, for mismatched passwords, leaves them as typed.
SentSubmitClearsPasswords ==
  /\ lastEvent.op \in Completions =>
       /\ Last.formState.password = <<>>
       /\ Last.formState.passwordConfirmation = <<>>
       /\ ~Last.isSubmitting /\ ~Last.submit.sent
  /\ lastEvent.op \in LocalRejections => ~Last.isSubmitting
  /\ lastEvent.op = "submitMismatch" =>
       Last.formState.password # Last.formState.passwordConfirmation

\* a mounted controller whose two edits were the two password fields got a
\* validation error back
SentPasswordsCleared ==
  /\ lastEvent.op = "submitReject" /\ lastEvent.v = "invalid"
  /\ Last.isMounted /\ Last.currentUser = "u1" /\ lastEvent.was = "u1"
  /\ edits = 2
  /\ Last.formState = defaultFormState("u1")

\* the slot the mapping rule gives a server key: the confirmation field for
\* its alias, the field itself for an editable form field, else general
SlotOf(key) ==
  IF key = "password_confirmation" THEN "passwordConfirmation"
  ELSE IF key \in FormFields THEN key
  ELSE "general"

ServerKeys(failure) == {failure.errors[i][1] : i \in DOMAIN failure.errors}

\* C13: a validation response keyed by password_confirmation and email
\* populates exactly the passwordConfirmation and email field errors and no
\* general error; in general the populated slots are those the mapping rule
\* gives the server's keys.
ErrorKeysFollowMappingRule ==
  (/\ lastEvent.op = "submitReject"
   /\ FailureData[lastEvent.v].hasErrors
   /\ FailureData[lastEvent.v].status # 401)
  => /\ DOMAIN Last.fieldErrors = {SlotOf(k) : k \in ServerKeys(FailureData[lastEvent.v])}
     /\ ServerKeys(FailureData[lastEvent.v]) = {"password_confirmation", "email"}
          => DOMAIN Last.fieldErrors = {"passwordConfirmation", "email"}

\* C14: calling an unsubscribe closure that has been called before changes
\* neither the cached value nor the registered listeners, so it never
\* removes a registration made by a later subscribe of the same listener.
SecondUnsubscribeIsNoOp ==
  [][lastEvent'.op = "unsubscribeAgain" =>
       /\ cachedUser' = cachedUser
       /\ listeners' = listeners]_vars

\* C15: while a controller's initialized flag is true, its form changes only
\* by its own field edits and its own submission completions, or when the
\* cache becomes absent; a notification with a present user, from another
\* consumer or from the controller's own late fetch, changes no form field.
FormOwnedLocally ==
  [][\A c \in Controllers :
       (ctl[c].hasInitializedRef /\ ctl'[c].formState # ctl[c].formState)
       => \/ /\ lastEvent'.l = c
             /\ lastEvent'.op \in {"change", "submitResolve", "submitReject"}
          \/ cachedUser' = Null]_vars

\* the late fetch of a controller seeded from u1 by another consumer has
\* put u2 into the cache and notified the controller; the form still shows u1
LateFetchKeepsDraft ==
  /\ lastEvent.op = "fetchResolve" /\ lastEvent.v = "u2"
  /\ delivered = <<<<lastEvent.l, "u2">>>>
  /\ Last.hasInitializedRef /\ Last.currentUser = "u2"
  /\ Last.formState = defaultFormState("u1")

\* the fan-out of the step just taken has called controller c with user
NotifiedWith(c, user) == \E i \in DOMAIN delivered : delivered[i] = <<c, user>>

\* C16: a notification with null leaves an active controller with its
\* initialized flag false and its form at the empty defaults; a notification
\* with a user that finds the flag false (so the first one after that)
\* leaves the form seeded from that user and the flag true.
AbsentResetsThenPresentReseeds ==
  [][\A c \in Controllers :
       (ctl[c].phase = "active" /\ ctl'[c].phase = "active") =>
         /\ NotifiedWith(c, Null)' =>
              /\ ~ctl'[c].hasInitializedRef
              /\ ctl'[c].formState = defaultFormState(Null)
              /\ ctl'[c].currentUser = Null
         /\ \A u \in Users :
              (~ctl[c].hasInitializedRef /\ NotifiedWith(c, u)') =>
                /\ ctl'[c].hasInitializedRef
                /\ ctl'[c].formState = defaultFormState(u)]_vars

\* a controller that had sent a submission was signed out by another
\* consumer (the cache held null), and the submission's answer then signed
\* it in again: flag true, form seeded from the returned user
ReseededAfterAbsent ==
  /\ lastEvent.op = "submitResolve" /\ lastEvent.was = Null
  /\ NotifiedWith(lastEvent.l, lastEvent.v)
  /\ Last.hasInitializedRef
  /\ Last.formState = defaultFormState(lastEvent.v)

\* C17: the effect that activates a controller calls the profile service's
\* fetch exactly when the cache holds no user as it subscribes: then the
\* controller is loading with one fetch in flight; otherwise it is ready
\* (seeded form, flag true, not loading) with no fetch.  No other step of
\* the controller calls the fetch, so a failed fetch is not retried.
FetchIffNoCachedUser ==
  /\ lastEvent.op = "effect" =>
       IF cachedUser = Null
       THEN /\ apiCalls = <<"getCurrentUser">>
            /\ Last.fetch = "pending" /\ Last.isLoading
            /\ Last.currentUser = Null
       ELSE /\ apiCalls = <<>>
            /\ Last.fetch = "none" /\ ~Last.isLoading
            /\ Last.hasInitializedRef /\ Last.currentUser = cachedUser
            /\ \E u \in Users : Last.formState = defaultFormState(u)
  /\ lastEvent.op # "effect" =>
       \A i \in DOMAIN apiCalls : apiCalls[i] # "getCurrentUser"
  /\ lastEvent.op = "fetchReject" => Last.fetch = "done"

\* a controller that rendered while the cache held u1 subscribed when it
\* held u2: no fetch, and the form seeded at render
ActivatedWithCachedUser ==
  /\ lastEvent.op = "effect"
  /\ cachedUser = "u2" /\ Last.currentUser = "u2"
  /\ Last.formState = defaultFormState("u1")
  /\ Last.fetch = "none"

\* C18: a listener that a callback subscribes (and so adds to the Set) while
\* a fan-out runs is called once, by the replay, and is not called after
\* that by the fan-out that was running.
JoinedListenerCalledOnce ==
  \A i, j \in DOMAIN delivered :
    (i < j /\ Len(delivered[i]) = 3 /\ delivered[i][3] = "new")
    => delivered[j][1] # delivered[i][1]

(* ================= two controllers on the one cache ===================== *)
\* Two mounted instances of the page (two surfaces of the application) next
\* to other consumers that set and clear the cache.  No field is edited: an
\* instance has something to submit when the cached user has changed since
\* its form was seeded.  The profile service answers a submission with a
\* user, with a 401 or with a 500.
PairFailures == {"unauthorized", "broken"}

NextPair ==
  \/ \E u \in Users : otherSetCurrentUser(u)
  \/ otherClear
  \/ \E c \in Controllers : render(c)
  \/ \E c \in Controllers : effect(c)
  \/ \E c \in Controllers : cleanup(c)
  \/ \E c \in Controllers, u \in Users : fetchResolve(c, u)
  \/ \E c \in Controllers : fetchReject(c, 500)
  \/ \E c \in Controllers : handleSubmit(c)
  \/ \E c \in Controllers, u \in Users : submitResolve(c, u)
  \/ \E c \in Controllers, f \in PairFailures : submitReject(c, f)

SpecPair == Init /\ [][NextPair]_vars

\* C19: (no handler of this specification is interrupted, so no fan-out is
\* in progress in any state) every active controller's currentUser equals
\* the cached user, hence any two active controllers hold the same user.
ControllersAgreeWithCache ==
  /\ \A c \in Controllers :
       ctl[c].phase = "active" => ctl[c].currentUser = cachedUser
  /\ \A c, d \in Controllers :
       (ctl[c].phase = "active" /\ ctl[d].phase = "active")
       => ctl[c].currentUser = ctl[d].currentUser

\* two active controllers, seeded from different users, both hold the user
\* that the submission of one of them just stored
TwoControllersAgree ==
  /\ lastEvent.op = "submitResolve" /\ lastEvent.v = "u2"
  /\ \A c \in Controllers : ctl[c].phase = "active" /\ ctl[c].currentUser = "u2"
  /\ \E c \in Controllers : ctl[c].formState = defaultFormState("u1")

\* C20: an active controller that has a current user is neither loading nor
\* showing a load-error message.
PresentUserMeansLoaded ==
  \A c \in Controllers :
    (ctl[c].phase = "active" /\ ctl[c].currentUser # Null)
    => /\ ~ctl[c].isLoading
       /\ ctl[c].loadError = NoMessage

====
